---- MODULE Spec2Model ----
(***************************************************************************)
(* A model of fodantic's key-path parser (src/src/fodantic/parser.py):     *)
(* parse_key tokenizes one flat key into a path, insert writes one value   *)
(* at a path of the result tree, parse drives both over a flat mapping.    *)
(*                                                                         *)
(* A string is a sequence of characters; a character is a one-character    *)
(* string, except three characters of the Basic Multilingual Plane that    *)
(* are written by name: "sup2" is U+00B2 (superscript two), "ar3" is       *)
(* U+0663 (arabic-indic digit three) and "nbsp" is U+00A0 (no-break        *)
(* space).                                                                 *)
(*                                                                         *)
(* A tree node is a record [t, v]: t is "scalar" (v an integer), "none"    *)
(* (Python's None), "dict" (v a function from names to nodes) or "list"    *)
(* (v a sequence of nodes).  A path segment is a record [k, name, n]: k is *)
(* "Field" (a str, name its text), "Index" (an int, n its value) or        *)
(* "Append" (None).                                                        *)
(***************************************************************************)
EXTENDS Integers, Sequences, FiniteSets, TLC

VARIABLES
    reqdata,     \* parse: the flat input, a sequence of entries with distinct keys
    pc,          \* parse: "start", "entry", "insert", "done" or "raised"
    i,           \* parse: position of the entry being processed (the items() loop)
    values,      \* parse: the normalised values of the current entry
    j,           \* parse: position of the value being inserted (the inner loop)
    parsed_key,  \* parse: the path of the current entry's key
    result,      \* parse: the result tree
    err,         \* parse: the exception that ended the call, or "none"
    reqstate,    \* parse: the input as it is now (its lists are objects)
    held,        \* parse: where result holds the list object of each entry
    key,         \* parse_key: its argument
    kpc,         \* parse_key: "strip", "findall", "convert", "done" or "raised"
    parts,       \* parse_key: the tokens findall returned
    parsed,      \* parse_key: the segments converted so far
    model_cls,   \* Form: the model class and whether it has an ORM class
    form_reqdata, \* Form: the reqdata argument of the constructor
    object,      \* Form: the object argument, as it is now
    fpc,         \* Form: "new", "extract", "validate", "built", "validated",
                 \*       "saved" or "raised"
    fi,          \* Form: position of the field in the constructor's loop
    data,        \* Form: the dict the constructor collects
    fields,      \* Form: the value and the error of each FormField
    is_valid,    \* Form.is_valid
    is_empty,    \* Form.is_empty
    model,       \* Form.model
    errors,      \* Form.errors
    wobject,     \* Form.wobject
    nvalid,      \* Form: the number of runs of validate so far
    saved,       \* Form: what save returned
    ferr,        \* Form: the exception save raised, or "none"
    orm_made     \* Form: the ORM instance save built

vars == <<reqdata, pc, i, values, j, parsed_key, result, err, reqstate, held,
          key, kpc, parts, parsed,
          model_cls, form_reqdata, object, fpc, fi, data, fields, is_valid, is_empty,
          model, errors, wobject, nvalid, saved, ferr, orm_made>>

parseVars == <<reqdata, pc, i, values, j, parsed_key, result, err, reqstate, held>>
keyVars == <<key, kpc, parts, parsed>>
formVars == <<model_cls, form_reqdata, object, fpc, fi, data, fields, is_valid, is_empty,
              model, errors, wobject, nvalid, saved, ferr, orm_made>>

----------------------------------------------------------------------------
(* Bounds of the model *)

MaxEntries == 2
MaxVals == 2
MaxKeyLen == 4
MaxFan == 3
MaxSubmits == 2
MaxValidations == 2

----------------------------------------------------------------------------
(* Characters *)

AsciiLetters == {"a", "b", "c", "g", "x"}
AsciiDigits == {"0", "1", "2"}
BmpChars == {"sup2", "ar3", "nbsp"}

\* First character of re_valid_name: _, a-z, A-Z, U+00A0-U+D7FF, U+F900-U+FDCF,
\* U+FDF0-U+FFEF
NameStart(ch) == ch \in AsciiLetters \cup {"_"} \cup BmpChars

\* Following characters of re_valid_name: the same class, 0-9 and the dot
NameChar(ch) == NameStart(ch) \/ ch \in AsciiDigits \/ ch = "."

\* [0-9] of re_valid_key
RxDigit(ch) == ch \in AsciiDigits

\* str.isspace, the characters str.strip() removes
IsSpace(ch) == ch \in {" ", "nbsp"}

\* str.isdigit for one character
IsDigitChar(ch) == ch \in AsciiDigits \cup {"sup2", "ar3"}

\* the characters int() reads as a decimal digit
IsDecimalChar(ch) == ch \in AsciiDigits \cup {"ar3"}

DigitValue(ch) ==
    CASE ch = "0" -> 0
      [] ch = "1" -> 1
      [] ch = "2" -> 2
      [] ch = "ar3" -> 3

----------------------------------------------------------------------------
(* Path segments *)

FieldSeg(nm) == [k |-> "Field", name |-> nm, n |-> 0]
IndexSeg(num) == [k |-> "Index", name |-> <<>>, n |-> num]
AppendSeg == [k |-> "Append", name |-> <<>>, n |-> 0]

----------------------------------------------------------------------------
(* parse_key *)

RECURSIVE LStripLoop(_)
LStripLoop(s) == IF s # <<>> /\ IsSpace(Head(s)) THEN LStripLoop(Tail(s)) ELSE s

\* A slip in the trim: leading whitespace is kept
LStripNone(s) == s

\* The leading half of str.strip()
LStrip(s) == LStripLoop(s)

RECURSIVE RStrip(_)
RStrip(s) ==
    IF s # <<>> /\ IsSpace(s[Len(s)]) THEN RStrip(SubSeq(s, 1, Len(s) - 1)) ELSE s

\* str.strip()
Strip(s) == RStrip(LStrip(s))

\* The position after the longest run of name characters that starts at p
RECURSIVE NameRunEnd(_, _)
NameRunEnd(s, p) ==
    IF p <= Len(s) /\ NameChar(s[p]) THEN NameRunEnd(s, p + 1) ELSE p

\* The position after the longest run of [0-9] that starts at p
RECURSIVE DigitRunEnd(_, _)
DigitRunEnd(s, p) ==
    IF p <= Len(s) /\ RxDigit(s[p]) THEN DigitRunEnd(s, p + 1) ELSE p

\* rx_valid_key matched at position p: the position after the match, 0 when
\* none of the four alternatives matches there.  The alternatives are tried
\* in the order of the pattern: name, [name], [digits], [].
MatchAt(s, p) ==
    IF NameStart(s[p]) THEN NameRunEnd(s, p + 1)
    ELSE IF s[p] # "[" \/ p + 1 > Len(s) THEN 0
    ELSE IF NameStart(s[p + 1]) /\ NameRunEnd(s, p + 2) <= Len(s)
            /\ s[NameRunEnd(s, p + 2)] = "]"
         THEN NameRunEnd(s, p + 2) + 1
    ELSE IF RxDigit(s[p + 1]) /\ DigitRunEnd(s, p + 2) <= Len(s)
            /\ s[DigitRunEnd(s, p + 2)] = "]"
         THEN DigitRunEnd(s, p + 2) + 1
    ELSE IF s[p + 1] = "]" THEN p + 2
    ELSE 0

\* rx_valid_key.findall(s) from position p on: the non-overlapping matches,
\* left to right; a position where nothing matches is passed over.
RECURSIVE FindallFrom(_, _)
FindallFrom(s, p) ==
    IF p > Len(s) THEN <<>>
    ELSE LET after == MatchAt(s, p) IN
         IF after = 0 THEN FindallFrom(s, p + 1)
         ELSE <<SubSeq(s, p, after - 1)>> \o FindallFrom(s, after)

Findall(s) == FindallFrom(s, 1)

\* str.isdigit()
IsDigitStr(s) == s # <<>> /\ \A p \in 1..Len(s) : IsDigitChar(s[p])

\* whether int(s) accepts a string that passed isdigit()
IsDecimalStr(s) == \A p \in 1..Len(s) : IsDecimalChar(s[p])

RECURSIVE IntOf(_)
IntOf(s) ==
    IF s = <<>> THEN 0
    ELSE 10 * IntOf(SubSeq(s, 1, Len(s) - 1)) + DigitValue(s[Len(s)])

\* The body of the loop over parts: the segment appended for one part, or
\* the ValueError of int()
ConvertPart(part) ==
    IF part[1] = "[" /\ part[Len(part)] = "]"
    THEN LET inner == Strip(SubSeq(part, 2, Len(part) - 1)) IN
         IF inner = <<>> THEN [err |-> "none", seg |-> AppendSeg]
         ELSE IF IsDigitStr(inner)
              THEN IF IsDecimalStr(inner)
                   THEN [err |-> "none", seg |-> IndexSeg(IntOf(inner))]
                   ELSE [err |-> "ValueError", seg |-> AppendSeg]
              ELSE [err |-> "none", seg |-> FieldSeg(inner)]
    ELSE [err |-> "none", seg |-> FieldSeg(part)]

RECURSIVE ConvertAll(_, _)
ConvertAll(ps, acc) ==
    IF ps = <<>> THEN [err |-> "none", path |-> acc]
    ELSE LET first == ConvertPart(Head(ps)) IN
         IF first.err # "none" THEN [err |-> first.err, path |-> acc]
         ELSE ConvertAll(Tail(ps), Append(acc, first.seg))

\* not key or key.startswith("["), of the stripped key
NoRoot(s) == IF s = <<>> THEN TRUE ELSE s[1] = "["

\* parse_key(key): the path, or the exception raised
parse_key(s) ==
    LET stripped == Strip(s) IN
    IF NoRoot(stripped) THEN [err |-> "none", path |-> <<>>]
    ELSE ConvertAll(Findall(stripped), <<>>)

----------------------------------------------------------------------------
(* Tree nodes *)

NoneNode == [t |-> "none", v |-> <<>>]
EmptyDict == [t |-> "dict", v |-> <<>>]
EmptyList == [t |-> "list", v |-> <<>>]
Scalar(num) == [t |-> "scalar", v |-> num]
DictNode(m) == [t |-> "dict", v |-> m]
ListNode(items) == [t |-> "list", v |-> items]

\* A slip in the test: isinstance(node, dict)
IsMapping(node) == node.t = "dict"

\* isinstance(node, (dict, list))
IsContainer(node) == node.t \in {"dict", "list"}

\* A slip in the shape inference: a sequence whatever the next segment
NewElemAlwaysList(next_part) == EmptyList

\* {} if isinstance(next_part, str) else []
NewElem(next_part) == IF next_part.k = "Field" THEN EmptyDict ELSE EmptyList

\* A slip in the write: a name already there keeps its value
DictPutKeep(m, nm, node) ==
    [x \in (DOMAIN m) \cup {nm} |-> IF x \in DOMAIN m THEN m[x] ELSE node]

\* A slip in the write: the mapping is replaced by one holding only nm
DictPutAlone(m, nm, node) == [x \in {nm} |-> node]

\* m[nm] = node on a dict
DictPut(m, nm, node) ==
    [x \in (DOMAIN m) \cup {nm} |-> IF x = nm THEN node ELSE m[x]]

\* while len(ref) <= part: ref.append(None)
RECURSIVE GrowLoop(_, _)
GrowLoop(items, part) ==
    IF Len(items) <= part THEN GrowLoop(Append(items, NoneNode), part) ELSE items

\* A slip in the loop's bound: one placeholder too many
GrowOneMore(items, part) == GrowLoop(items, part + 1)

\* The sparse fill of an Index segment
Grow(items, part) == GrowLoop(items, part)

\* A slip in the append: the value takes the place of the last element
ListReplaceLast(items, val) ==
    IF items = <<>> THEN <<val>> ELSE [items EXCEPT ![Len(items)] = val]

\* A slip in the append: the value is put first
ListPrepend(items, val) == <<val>> \o items

\* ref.append(value)
ListAppend(items, val) == Append(items, val)

\* A slip in the descent: an element that is not a container is replaced, as
\* it is under a name
SlotNewUnlessContainer(slot, next_part) ==
    IF slot.t \notin {"dict", "list"} THEN NewElem(next_part) ELSE slot

\* A slip in the descent: the element is replaced even when it is there
SlotAlwaysNew(slot, next_part) == NewElem(next_part)

\* if ref[part] is None: ref[part] = {} if isinstance(next_part, str) else []
SlotOrNew(slot, next_part) == IF slot.t = "none" THEN NewElem(next_part) ELSE slot

\* A slip in the write: the node is inserted at the position (list.insert),
\* and what was there moves up
ListPutInsert(items, part, node) ==
    SubSeq(items, 1, part) \o <<node>> \o SubSeq(items, part + 1, Len(items))

\* items[part] = node on a list (Python counts from 0)
ListPut(items, part, node) == [items EXCEPT ![part + 1] = node]

----------------------------------------------------------------------------
(* insert *)

\* One turn of insert's loop at position p of the path, with ref the node the
\* walk has reached, and the turns after it.  The answer is ref as the walk
\* leaves it (Python changes it in place) and the exception raised, if any.
RECURSIVE InsertAt(_, _, _, _)
InsertAt(pk, p, val, ref) ==
    LET part == pk[p]
        is_last == p = Len(pk)
        next_part == pk[p + 1]
    IN
    IF part.k = "Append" THEN
        IF ref.t # "list" THEN [err |-> "AssertionError", node |-> ref]
        ELSE IF is_last THEN [err |-> "none", node |-> ListNode(ListAppend(ref.v, val))]
        ELSE LET sub == InsertAt(pk, p + 1, val, NewElem(next_part)) IN
             [err |-> sub.err, node |-> ListNode(ListAppend(ref.v, sub.node))]
    ELSE IF part.k = "Index" THEN
        IF ref.t # "list" THEN [err |-> "AssertionError", node |-> ref]
        ELSE LET grown == Grow(ref.v, part.n) IN
             IF is_last
             THEN [err |-> "none", node |-> ListNode(ListPut(grown, part.n, val))]
             ELSE LET cur == SlotOrNew(grown[part.n + 1], next_part)
                      sub == InsertAt(pk, p + 1, val, cur)
                  IN [err |-> sub.err,
                      node |-> ListNode(ListPut(grown, part.n, sub.node))]
    ELSE
        IF is_last THEN
            IF ref.t # "dict" THEN [err |-> "AssertionError", node |-> ref]
            ELSE [err |-> "none", node |-> DictNode(DictPut(ref.v, part.name, val))]
        ELSE IF ref.t # "dict" THEN [err |-> "TypeError", node |-> ref]
        ELSE LET cur == IF part.name \notin DOMAIN ref.v
                           \/ ~IsContainer(ref.v[part.name])
                        THEN NewElem(next_part)
                        ELSE ref.v[part.name]
                 sub == InsertAt(pk, p + 1, val, cur)
             IN [err |-> sub.err,
                 node |-> DictNode(DictPut(ref.v, part.name, sub.node))]

\* A slip at the empty path: the last segment is read before the loop
insertReadsLast(pk, val, tgt) ==
    IF pk = <<>> THEN [err |-> "IndexError", node |-> tgt] ELSE InsertAt(pk, 1, val, tgt)

\* insert(parsed_key, value, target): the loop does nothing for an empty path
insert(pk, val, tgt) ==
    IF pk = <<>> THEN [err |-> "none", node |-> tgt] ELSE InsertAt(pk, 1, val, tgt)

----------------------------------------------------------------------------
(* parse *)

\* A slip in the test: a list is wrapped like any other value
NormalizeWrapAll(val) == <<val>>

\* if not isinstance(values, list) or not values: values = [values]
Normalize(val) == IF val.t # "list" \/ val.v = <<>> THEN <<val>> ELSE val.v

\* The inner loop of parse from value q on: insert each value in turn
RECURSIVE InsertValues(_, _, _, _)
InsertValues(pk, vals, q, tree) ==
    IF q > Len(vals) THEN [err |-> "none", node |-> tree]
    ELSE LET done == insert(pk, vals[q], tree) IN
         IF done.err # "none" THEN done ELSE InsertValues(pk, vals, q + 1, done.node)

\* The outer loop of parse from entry p on
RECURSIVE ParseEntries(_, _, _)
ParseEntries(rd, p, tree) ==
    IF p > Len(rd) THEN [err |-> "none", node |-> tree]
    ELSE LET tokens == parse_key(rd[p].key) IN
         IF tokens.err # "none" THEN [err |-> tokens.err, node |-> tree]
         ELSE LET done == InsertValues(tokens.path, Normalize(rd[p].val), 1, tree) IN
              IF done.err # "none" THEN done ELSE ParseEntries(rd, p + 1, done.node)

\* parse(reqdata): the tree returned, or the exception raised
parse(rd) == IF rd = <<>> THEN [err |-> "none", node |-> EmptyDict]
             ELSE ParseEntries(rd, 1, EmptyDict)

----------------------------------------------------------------------------
(* The inputs of parse *)

\* The keys of the flat mappings: a, a[b], a[b][c], a[0], a[2], a[], a[1][b],
\* a[1][c], g[0] and [x]
KeyPool ==
    { <<"a">>,
      <<"a", "[", "b", "]">>,
      <<"a", "[", "b", "]", "[", "c", "]">>,
      <<"a", "[", "0", "]">>,
      <<"a", "[", "2", "]">>,
      <<"a", "[", "]">>,
      <<"a", "[", "1", "]", "[", "b", "]">>,
      <<"a", "[", "1", "]", "[", "c", "]">>,
      <<"g", "[", "0", "]">>,
      <<"[", "x", "]">> }

\* The values of the entry at position p: one scalar, or a list of 0 to
\* MaxVals scalars.  parse never looks into a scalar, so the scalars of an
\* input are taken pairwise distinct: 10 * p + q is the q-th of entry p.
ScalarList(p, len) == ListNode([q \in 1..len |-> Scalar(10 * p + q)])

ValueChoices(p) == {Scalar(10 * p + 1)} \cup {ScalarList(p, len) : len \in 0..MaxVals}

\* The sequences of len pairwise distinct keys
KeySeqs(len) ==
    {ks \in [1..len -> KeyPool] : \A p, q \in 1..len : p # q => ks[p] # ks[q]}

ValueSeqs(len) ==
    {vs \in [1..len -> UNION {ValueChoices(p) : p \in 1..len}] :
        \A p \in 1..len : vs[p] \in ValueChoices(p)}

\* The flat mapping of the keys ks with the values vs, in iteration order
Entries(ks, vs) == [p \in DOMAIN ks |-> [key |-> ks[p], val |-> vs[p]]]

----------------------------------------------------------------------------
(* The objects of the input that the result tree holds *)

\* A place in a tree is the names and the positions from the root down to
\* it.  NodeAt is the node at the place loc from position p on, None when
\* there is none.
RECURSIVE NodeAt(_, _, _)
NodeAt(node, loc, p) ==
    IF p > Len(loc) THEN node
    ELSE IF loc[p].k = "Field"
         THEN IF node.t = "dict" /\ loc[p].name \in DOMAIN node.v
              THEN NodeAt(node.v[loc[p].name], loc, p + 1) ELSE NoneNode
    ELSE IF node.t = "list" /\ loc[p].n < Len(node.v)
         THEN NodeAt(node.v[loc[p].n + 1], loc, p + 1) ELSE NoneNode

\* WriteLoc is the place where insert stored its value, read from the tree
\* after the insertion: an Append stored at the last position of its list.
RECURSIVE WriteLoc(_, _, _)
WriteLoc(pk, p, node) ==
    IF p > Len(pk) THEN <<>>
    ELSE LET step == IF pk[p].k # "Append" THEN pk[p]
                     ELSE IF node.t = "list" /\ node.v # <<>>
                          THEN IndexSeg(Len(node.v) - 1) ELSE IndexSeg(0)
         IN <<step>> \o WriteLoc(pk, p + 1, NodeAt(node, <<step>>, 1))

\* The place loc is at or below the place of the write
Overwritten(loc, written) ==
    /\ written # <<>>
    /\ Len(written) <= Len(loc)
    /\ SubSeq(loc, 1, Len(written)) = written

\* The list object held at the place loc is still there after a write
StillHeld(loc, written, tree) ==
    /\ loc # <<>>
    /\ ~Overwritten(loc, written)
    /\ NodeAt(tree, loc, 1).t = "list"

----------------------------------------------------------------------------
(* parse as a state machine: one step per turn of its loops *)

KeyIdle == key = <<>> /\ kpc = "idle" /\ parts = <<>> /\ parsed = <<>>

\* No form is being built
FormIdle ==
    /\ model_cls = NoneNode
    /\ form_reqdata = NoneNode
    /\ object = NoneNode
    /\ fpc = "idle"
    /\ fi = 0
    /\ data = <<>>
    /\ fields = <<>>
    /\ is_valid = FALSE
    /\ is_empty = TRUE
    /\ model = NoneNode
    /\ errors = <<>>
    /\ wobject = NoneNode
    /\ nvalid = 0
    /\ saved = NoneNode
    /\ ferr = "none"
    /\ orm_made = NoneNode

\* parse is called with a flat mapping of at most MaxEntries entries
Init ==
    /\ \E len \in 0..MaxEntries :
         \E ks \in KeySeqs(len) :
            \E vs \in ValueSeqs(len) : reqdata = Entries(ks, vs)
    /\ pc = "start"
    /\ i = 0
    /\ values = <<>>
    /\ j = 0
    /\ parsed_key = <<>>
    /\ result = NoneNode
    /\ err = "none"
    /\ reqstate = reqdata
    /\ held = [p \in DOMAIN reqdata |-> <<>>]
    /\ KeyIdle
    /\ FormIdle

\* if not reqdata: return {}
ParseEmpty ==
    /\ pc = "start"
    /\ reqdata = <<>>
    /\ result' = EmptyDict
    /\ pc' = "done"
    /\ UNCHANGED <<reqdata, i, values, j, parsed_key, err, reqstate, held, keyVars, formVars>>

\* result = {} and the start of the loop over the entries
ParseBegin ==
    /\ pc = "start"
    /\ reqdata # <<>>
    /\ result' = EmptyDict
    /\ i' = 1
    /\ pc' = "entry"
    /\ UNCHANGED <<reqdata, values, j, parsed_key, err, reqstate, held, keyVars, formVars>>

\* One turn of the outer loop: the values are normalised and the key parsed
NextEntry ==
    /\ pc = "entry"
    /\ i <= Len(reqdata)
    /\ values' = Normalize(reqstate[i].val)
    /\ LET tokens == parse_key(reqstate[i].key) IN
       IF tokens.err # "none"
       THEN /\ err' = tokens.err
            /\ pc' = "raised"
            /\ UNCHANGED <<j, parsed_key>>
       ELSE /\ parsed_key' = tokens.path
            /\ j' = 1
            /\ pc' = "insert"
            /\ err' = err
    /\ UNCHANGED <<reqdata, i, result, reqstate, held, keyVars, formVars>>

\* One turn of the inner loop: insert(parsed_key, value, result).  The value
\* is stored by reference, and every list of the input that result holds
\* changes with what is written into it.
InsertValue ==
    /\ pc = "insert"
    /\ LET done == insert(parsed_key, values[j], result)
           written == IF done.err = "none" /\ parsed_key # <<>>
                      THEN WriteLoc(parsed_key, 1, done.node) ELSE <<>>
           own == written # <<>> /\ reqstate[i].val = EmptyList
       IN
       /\ result' = done.node
       /\ held' = [p \in DOMAIN held |->
                      IF p = i /\ own THEN written
                      ELSE IF StillHeld(held[p], written, done.node) THEN held[p]
                      ELSE <<>>]
       /\ reqstate' = [p \in DOMAIN reqstate |->
                          IF (p # i \/ ~own) /\ StillHeld(held[p], written, done.node)
                          THEN [reqstate[p] EXCEPT !.val = NodeAt(done.node, held[p], 1)]
                          ELSE reqstate[p]]
       /\ IF done.err # "none"
          THEN /\ err' = done.err
               /\ pc' = "raised"
               /\ UNCHANGED <<i, j>>
          ELSE IF j < Len(values)
          THEN /\ j' = j + 1
               /\ UNCHANGED <<i, pc, err>>
          ELSE /\ i' = i + 1
               /\ pc' = "entry"
               /\ UNCHANGED <<j, err>>
    /\ UNCHANGED <<reqdata, values, parsed_key, keyVars, formVars>>

\* return result
ParseReturn ==
    /\ pc = "entry"
    /\ i > Len(reqdata)
    /\ pc' = "done"
    /\ UNCHANGED <<reqdata, i, values, j, parsed_key, result, err, reqstate, held,
                   keyVars, formVars>>

Next == ParseEmpty \/ ParseBegin \/ NextEntry \/ InsertValue \/ ParseReturn

Spec == Init /\ [][Next]_vars

----------------------------------------------------------------------------
(* parse of one key with a longer list of values *)

\* One scalar, or a list of 0 to MaxFan scalars
FanValues == {Scalar(11)} \cup {ScalarList(1, len) : len \in 0..MaxFan}

\* parse is called with a flat mapping of at most one entry
InitFan ==
    /\ \E len \in 0..1 :
         \E ks \in KeySeqs(len) :
            \E val \in FanValues : reqdata = Entries(ks, [p \in 1..len |-> val])
    /\ pc = "start"
    /\ i = 0
    /\ values = <<>>
    /\ j = 0
    /\ parsed_key = <<>>
    /\ result = NoneNode
    /\ err = "none"
    /\ reqstate = reqdata
    /\ held = [p \in DOMAIN reqdata |-> <<>>]
    /\ KeyIdle
    /\ FormIdle

SpecFan == InitFan /\ [][Next]_vars

----------------------------------------------------------------------------
(* parse of keys that append containers *)

\* The keys a[][b], a[][c], a[][], a[], a[0][b], a[b] and a[b][][c]
NestKeys ==
    { <<"a", "[", "]", "[", "b", "]">>,
      <<"a", "[", "]", "[", "c", "]">>,
      <<"a", "[", "]", "[", "]">>,
      <<"a", "[", "]">>,
      <<"a", "[", "0", "]", "[", "b", "]">>,
      <<"a", "[", "b", "]">>,
      <<"a", "[", "b", "]", "[", "]", "[", "c", "]">> }

\* The sequences of len pairwise distinct keys of NestKeys
NestKeySeqs(len) ==
    {ks \in [1..len -> NestKeys] : \A p, q \in 1..len : p # q => ks[p] # ks[q]}

\* parse is called with a flat mapping of at most MaxEntries of these keys
InitNest ==
    /\ \E len \in 0..MaxEntries :
         \E ks \in NestKeySeqs(len) :
            \E vs \in ValueSeqs(len) : reqdata = Entries(ks, vs)
    /\ pc = "start"
    /\ i = 0
    /\ values = <<>>
    /\ j = 0
    /\ parsed_key = <<>>
    /\ result = NoneNode
    /\ err = "none"
    /\ reqstate = reqdata
    /\ held = [p \in DOMAIN reqdata |-> <<>>]
    /\ KeyIdle
    /\ FormIdle

SpecNest == InitNest /\ [][Next]_vars

----------------------------------------------------------------------------
(* parse_key as a state machine: one step per statement *)

RawAlphabet == {"a", "1", ".", "[", "]", " ", "sup2", "ar3", "nbsp"}

\* The strings of len characters
RawKeys(len) == [1..len -> RawAlphabet]

ParseIdle ==
    /\ reqdata = <<>>
    /\ pc = "idle"
    /\ i = 0
    /\ values = <<>>
    /\ j = 0
    /\ parsed_key = <<>>
    /\ result = NoneNode
    /\ err = "none"
    /\ reqstate = <<>>
    /\ held = <<>>

\* parse_key is called with a string of at most MaxKeyLen characters, or
\* with a key of the flat mappings
KeyInit ==
    /\ \E len \in 0..MaxKeyLen : key \in RawKeys(len) \cup KeyPool
    /\ kpc = "strip"
    /\ parts = <<>>
    /\ parsed = <<>>
    /\ ParseIdle
    /\ FormIdle

\* key = key.strip(); if not key or key.startswith("["): return []
KeyReject ==
    /\ kpc = "strip"
    /\ NoRoot(Strip(key))
    /\ kpc' = "done"
    /\ UNCHANGED <<key, parts, parsed, parseVars, formVars>>

\* parts = rx_valid_key.findall(key); the print of parts writes to the
\* standard output and changes nothing here
KeyFindall ==
    /\ kpc = "strip"
    /\ ~NoRoot(Strip(key))
    /\ parts' = Findall(Strip(key))
    /\ kpc' = "convert"
    /\ UNCHANGED <<key, parsed, parseVars, formVars>>

\* One turn of the loop over parts
KeyConvert ==
    /\ kpc = "convert"
    /\ Len(parsed) < Len(parts)
    /\ IF ConvertPart(parts[Len(parsed) + 1]).err # "none"
       THEN /\ kpc' = "raised"
            /\ UNCHANGED parsed
       ELSE /\ parsed' = Append(parsed, ConvertPart(parts[Len(parsed) + 1]).seg)
            /\ UNCHANGED kpc
    /\ UNCHANGED <<key, parts, parseVars, formVars>>

\* return parsed
KeyReturn ==
    /\ kpc = "convert"
    /\ Len(parsed) = Len(parts)
    /\ kpc' = "done"
    /\ UNCHANGED <<key, parts, parsed, parseVars, formVars>>

KeyNext == KeyReject \/ KeyFindall \/ KeyConvert \/ KeyReturn

SpecKey == KeyInit /\ [][KeyNext]_vars

----------------------------------------------------------------------------
(* The form binding (src/src/fodantic/form.py, form_field.py, wrappers.py) *)

(* Python values of the form layer: None is NoneNode, a list is a ListNode,  *)
(* and a str, an int, a bool and pydantic's PydanticUndefined are records   *)
(* [t, v] like the tree nodes.  A dict is a function from names to values.  *)
Str(s) == [t |-> "str", v |-> s]
IntVal(num) == [t |-> "int", v |-> num]
BoolVal(b) == [t |-> "bool", v |-> b]
PydanticUndefined == [t |-> "undefined", v |-> <<>>]

\* bool(value)
Truthy(val) ==
    IF val.t = "bool" THEN val.v
    ELSE IF val.t = "str" THEN val.v # ""
    ELSE IF val.t = "int" THEN val.v # 0
    ELSE IF val.t = "list" THEN val.v # <<>>
    ELSE FALSE

\* A dict literal of one key
OneKey(k, val) == [x \in {k} |-> val]

\* dict.update: the entries of more replace those of base
Updated(base, more) ==
    [x \in (DOMAIN base) \cup (DOMAIN more) |-> IF x \in DOMAIN more THEN more[x] ELSE base[x]]

\* The request data given to a form: None, a plain dict (a DictNode) or a
\* multi-valued mapping such as a MultiDict (t is "multi", v a function
\* from keys to the non-empty sequence of the values submitted under the key)
MultiDict(items) == [t |-> "multi", v |-> items]

\* DataWrapper(source): self.source = {} if source is None else source
DataWrapper(source) == IF source = NoneNode THEN EmptyDict ELSE source

\* DataWrapper.__contains__: name in self.source
Contains(wreqdata, k) == k \in DOMAIN wreqdata.v

\* DataWrapper.get: source.get(key), which for a multi-valued mapping is the
\* first of the values under the key
SourceGet(wreqdata, k) ==
    IF k \notin DOMAIN wreqdata.v THEN NoneNode
    ELSE IF wreqdata.t = "multi" THEN wreqdata.v[k][1]
    ELSE wreqdata.v[k]

\* DataWrapper.getall: source.getall(key) of a multi-valued mapping, all the
\* values under the key; for a plain dict the fallback: [] for None, the
\* list itself, or the one value in a list
SourceGetAll(wreqdata, k) ==
    IF wreqdata.t = "multi"
    THEN IF k \in DOMAIN wreqdata.v THEN ListNode(wreqdata.v[k]) ELSE ListNode(<<>>)
    ELSE LET found == SourceGet(wreqdata, k) IN
         IF found = NoneNode THEN ListNode(<<>>)
         ELSE IF found.t = "list" THEN found
         ELSE ListNode(<<found>>)

\* The object given to a form: None, a dict (a DictNode) or an instance
\* with attributes (t is "object", v a function from names to values)
AttrObject(attrs) == [t |-> "object", v |-> attrs]

\* "if object": None and an empty dict are false, an instance is true
ObjectTruthy(obj) ==
    IF obj.t = "none" THEN FALSE
    ELSE IF obj.t = "dict" THEN DOMAIN obj.v # {} ELSE TRUE

\* ObjectWrapper(source).get: {} if source is None; source.get(name) of a
\* dict, or getattr(source, name, None)
ObjectGet(obj, k) ==
    IF obj.t = "none" THEN NoneNode
    ELSE IF k \in DOMAIN obj.v THEN obj.v[k] ELSE NoneNode

\* ObjectWrapper.update: source.update(data) or setattr for each item
ObjectUpdate(obj, more) == [obj EXCEPT !.v = Updated(obj.v, more)]

----------------------------------------------------------------------------
(* FormField *)

\* What FormField reads of a pydantic FieldInfo: the field's name, the kind
\* of its annotation ("str", "int", "list" or "bool"), its alias ("" when it
\* has none), its alias priority (0 when it is None) and its default
\* (PydanticUndefined when it is required; the product of default_factory)
FieldInfo(name, kind, alias, alias_priority, default) ==
    [name |-> name, kind |-> kind, alias |-> alias,
     alias_priority |-> alias_priority, default |-> default]

\* annotation_origin in (list, tuple, Iterable)
IsMultiple(info) == info.kind = "list"

\* info.annotation is bool
IsBool(info) == info.kind = "bool"

\* info.is_required()
IsRequired(info) == info.default = PydanticUndefined

\* info.alias_priority or 2
AliasPriority(info) == IF info.alias_priority = 0 THEN 2 ELSE info.alias_priority

\* FormField.alias_name; the form's prefix is "" throughout
AliasName(info) == info.alias

\* FormField.get_default
get_default(info) ==
    IF info.default = PydanticUndefined \/ info.default = NoneNode
    THEN IF IsMultiple(info) THEN ListNode(<<>>) ELSE Str("")
    ELSE info.default

\* A slip in the test: the alias is never read first
AliasNever(info) == FALSE

\* if self.alias_priority > 1: value, alias_value = alias_value, value
AliasFirst(info) == AliasPriority(info) > 1

\* A slip in the checkbox rule: the plain truth value of what was submitted
BoolOfPlain(extracted) == BoolVal(Truthy(extracted))

\* The end of extract_value for a bool field
BoolOf(extracted) ==
    IF extracted = NoneNode THEN BoolVal(FALSE)
    ELSE IF extracted = Str("") THEN BoolVal(TRUE)
    ELSE BoolVal(Truthy(extracted))

\* FormField.extract_value(reqdata)
extract_value(info, wreqdata) ==
    IF IsBool(info) /\ ~Contains(wreqdata, info.name) THEN BoolVal(FALSE)
    ELSE LET by_name == SourceGet(wreqdata, info.name)
             by_alias == SourceGet(wreqdata, AliasName(info))
             value == IF AliasFirst(info) THEN by_alias ELSE by_name
             alias_value == IF AliasFirst(info) THEN by_name ELSE by_alias
             extracted == IF value = NoneNode THEN alias_value ELSE value
         IN IF IsBool(info) THEN BoolOf(extracted) ELSE extracted

\* FormField.set_value(value): the field's value after the call, was before
set_value(info, was, value) ==
    IF value = NoneNode
    THEN IF IsBool(info) THEN BoolVal(FALSE) ELSE was
    ELSE value

----------------------------------------------------------------------------
(* The model classes and the inputs of a form *)

\* A model class made formable: its name, its fields in declaration order
\* and whether formable was given an ORM class
ModelClass(cls, orm, infos) == [cls |-> cls, orm |-> orm, infos |-> infos]

\* UserModel of the tests: name: str, age: int = 33, tags: list[str] = []
UserModel ==
    ModelClass("UserModel", FALSE,
        << FieldInfo("name", "str", "", 0, PydanticUndefined),
           FieldInfo("age", "int", "", 0, IntVal(33)),
           FieldInfo("tags", "list", "", 0, ListNode(<<>>)) >>)

\* MyModel of test_checkbox_empty_override_default: checkbox: bool = True
CheckboxModel ==
    ModelClass("CheckboxModel", FALSE, << FieldInfo("checkbox", "bool", "", 0, BoolVal(TRUE)) >>)

\* MyModel of test_orm: name: str, with orm=User
OrmModel ==
    ModelClass("OrmModel", TRUE, << FieldInfo("name", "str", "", 0, PydanticUndefined) >>)

\* Fields with an alias: nick: str = Field("anon", alias="handle"),
\* code: str = Field("x", alias="c", alias_priority=1) and
\* flag: bool = Field(True, alias="sw")
NickModel ==
    ModelClass("NickModel", FALSE, << FieldInfo("nick", "str", "handle", 2, Str("anon")) >>)

CodeModel ==
    ModelClass("CodeModel", FALSE, << FieldInfo("code", "str", "c", 1, Str("x")) >>)

FlagModel ==
    ModelClass("FlagModel", FALSE, << FieldInfo("flag", "bool", "sw", 2, BoolVal(TRUE)) >>)

ModelClasses == {UserModel, CheckboxModel, OrmModel, NickModel, CodeModel, FlagModel}

\* The fields of a model class and their names
InfosOf(mc) == {mc.infos[p] : p \in DOMAIN mc.infos}
NamesOf(mc) == {info.name : info \in InfosOf(mc)}
InfoOf(mc, name) == CHOOSE info \in InfosOf(mc) : info.name = name

\* The values a plain dict may hold under the name of a field
NameValues(info) ==
    IF info.kind = "str" THEN {Str(""), Str("a"), NoneNode}
    ELSE IF info.kind = "int" THEN {Str("20")}
    ELSE IF info.kind = "list" THEN {Str("a"), ListNode(<<Str("a"), Str("b")>>)}
    ELSE {Str(""), Str("on"), BoolVal(FALSE), NoneNode}

\* The values a plain dict may hold under the alias of a field
AliasValues(info) ==
    IF info.kind = "bool" THEN {Str("on"), BoolVal(FALSE)} ELSE {Str("b")}

\* The values submitted under a name to a multi-valued mapping: strings, one
\* for a single field and 1 to MaxSubmits of them for a list field
Submitted == <<Str("a"), Str("b"), Str("c"), Str("d")>>

SubmitValues(info) ==
    IF info.kind = "list" THEN {SubSeq(Submitted, 1, n) : n \in 1..MaxSubmits}
    ELSE IF info.kind = "int" THEN {<<Str("20")>>}
    ELSE IF info.kind = "bool" THEN {<<Str("")>>, <<Str("on")>>}
    ELSE {<<Str("joe")>>}

\* The values an object may hold under the name of a field
ObjectValues(info) ==
    IF info.kind = "str" THEN {Str("orig")}
    ELSE IF info.kind = "int" THEN {IntVal(25)}
    ELSE IF info.kind = "list" THEN {}
    ELSE {BoolVal(TRUE)}

\* The keys request data may hold for a model class: names and aliases
KeysOf(mc) == NamesOf(mc) \cup {info.alias : info \in {x \in InfosOf(mc) : x.alias # ""}}

\* The field a key of the request data belongs to
FieldOfKey(mc, k) == CHOOSE info \in InfosOf(mc) : info.name = k \/ info.alias = k

\* The functions from some of the keys to one of the values choice gives
DictsOver(keys, choice(_)) ==
    UNION {{f \in [ks -> UNION {choice(k) : k \in ks}] : \A k \in ks : f[k] \in choice(k)} :
              ks \in SUBSET keys}

\* The request data a form of the model class mc may be given
RequestChoices(mc) ==
    LET plain(k) == IF k \in NamesOf(mc) THEN NameValues(FieldOfKey(mc, k))
                                          ELSE AliasValues(FieldOfKey(mc, k))
        multi(k) == SubmitValues(FieldOfKey(mc, k))
    IN {NoneNode}
       \cup {DictNode(f) : f \in DictsOver(KeysOf(mc), plain)}
       \cup {MultiDict(f) : f \in DictsOver(NamesOf(mc), multi)}

\* The objects a form of the model class mc may be given
ObjectChoices(mc) ==
    LET has(k) == ObjectValues(InfoOf(mc, k))
        names == {k \in NamesOf(mc) : has(k) # {}}
    IN {NoneNode}
       \cup {DictNode(f) : f \in DictsOver(names, has)}
       \cup {AttrObject(f) : f \in DictsOver(names, has)}

----------------------------------------------------------------------------
(* pydantic, as far as the form depends on it *)

\* An entry of ValidationError.errors(): loc is () or (name,)
ErrorDetails(type, loc) == [t |-> "error", v |-> [type |-> type, loc |-> loc]]

\* The errors of the required fields that data lacks, in field order
RECURSIVE MissingFrom(_, _, _)
MissingFrom(mc, d, p) ==
    IF p > Len(mc.infos) THEN <<>>
    ELSE IF IsRequired(mc.infos[p]) /\ mc.infos[p].name \notin DOMAIN d
         THEN <<ErrorDetails("missing", <<mc.infos[p].name>>)>> \o MissingFrom(mc, d, p + 1)
    ELSE MissingFrom(mc, d, p + 1)

\* What model_cls(**data) may answer: the list of the errors of the
\* ValidationError it raises, or <<>> when it returns a model.  pydantic is
\* not part of the program: a required field that is missing is always an
\* error, and beyond that any one value, or the model as a whole (an error
\* with an empty loc), may be refused or not.
ValidationOutcomes(mc, d) ==
    {MissingFrom(mc, d, 1) \o extra :
        extra \in {<<>>, <<ErrorDetails("value_error", <<>>)>>}
                  \cup {<<ErrorDetails("invalid", <<k>>)>> : k \in DOMAIN d}}

\* The model pydantic returns for data: a value for every field
ModelOf(mc, d) ==
    [t |-> "model",
     v |-> [k \in NamesOf(mc) |-> IF k \in DOMAIN d THEN d[k] ELSE InfoOf(mc, k).default]]

----------------------------------------------------------------------------
(* Form as a state machine: the constructor step by step, then the calls *)
(* of validate and save                                                   *)

\* The data validate() builds when it is given none: the fields' values
FieldsData ==
    [k \in {x \in DOMAIN fields : fields[x].value # NoneNode} |-> fields[k].value]

\* if not loc: self.errors.append(error)
RECURSIVE RootErrors(_)
RootErrors(errs) ==
    IF errs = <<>> THEN <<>>
    ELSE IF errs[1].v.loc = <<>> THEN <<errs[1]>> \o RootErrors(Tail(errs))
    ELSE RootErrors(Tail(errs))

\* for name in loc: field.error = error, the last error of a name staying
RECURSIVE ErrorFor(_, _, _)
ErrorFor(errs, k, was) ==
    IF errs = <<>> THEN was
    ELSE ErrorFor(Tail(errs), k, IF errs[1].v.loc = <<k>> THEN errs[1] ELSE was)

\* A slip in the test: validation runs whatever the request data
ValidateAlways(rd) == TRUE

\* if reqdata is not None: self.validate(data)
ShouldValidate(rd) == rd # NoneNode

\* A slip in the test: a model is enough to save
CanSaveAnyModel(m, valid) == m # NoneNode

\* save goes on unless: not self.model or not self.is_valid
CanSave(m, valid) == m # NoneNode /\ valid

\* Form(reqdata, model_cls=..., object=...) is called for one of the model
\* classes; is_valid, is_empty, wobject and model are the class attributes
FormInit ==
    /\ model_cls \in ModelClasses
    /\ form_reqdata \in RequestChoices(model_cls)
    /\ object \in ObjectChoices(model_cls)
    /\ fpc = "new"
    /\ fi = 0
    /\ data = <<>>
    /\ fields = <<>>
    /\ is_valid = FALSE
    /\ is_empty = TRUE
    /\ model = NoneNode
    /\ errors = <<>>
    /\ wobject = NoneNode
    /\ nvalid = 0
    /\ saved = NoneNode
    /\ ferr = "none"
    /\ orm_made = NoneNode
    /\ ParseIdle
    /\ KeyIdle

\* __init__ up to "if self.is_empty: return", and for a form that is not
\* empty the wrappers and data = {}
FormNew ==
    /\ fpc = "new"
    /\ errors' = <<>>
    /\ fields' = [k \in NamesOf(model_cls) |->
                     [value |-> get_default(InfoOf(model_cls, k)), error |-> NoneNode]]
    /\ is_empty' = (form_reqdata = NoneNode /\ object = NoneNode)
    /\ IF form_reqdata = NoneNode /\ object = NoneNode
       THEN /\ fpc' = "built"
            /\ UNCHANGED <<fi, wobject>>
       ELSE /\ fpc' = "extract"
            /\ fi' = 1
            /\ wobject' = IF object # NoneNode THEN Str("ObjectWrapper") ELSE wobject
    /\ data' = <<>>
    /\ UNCHANGED <<model_cls, form_reqdata, object, is_valid, model, nvalid, saved,
                   ferr, orm_made, parseVars, keyVars>>

\* One turn of the loop over the fields: the value of the request data, or
\* the value of the object when there is none
FormExtract ==
    /\ fpc = "extract"
    /\ fi <= Len(model_cls.infos)
    /\ LET field == model_cls.infos[fi]
           extracted == extract_value(field, DataWrapper(form_reqdata))
           value == IF ObjectTruthy(object) /\ extracted = NoneNode
                    THEN ObjectGet(object, field.name) ELSE extracted
       IN data' = IF value # NoneNode THEN Updated(data, OneKey(field.name, value))
                                      ELSE data
    /\ fi' = fi + 1
    /\ UNCHANGED <<model_cls, form_reqdata, object, fpc, fields, is_valid, is_empty,
                   model, errors, wobject, nvalid, saved, ferr, orm_made,
                   parseVars, keyVars>>

\* The loop of set_value over data, and the test that ends __init__
FormSetValues ==
    /\ fpc = "extract"
    /\ fi > Len(model_cls.infos)
    /\ fields' = [k \in DOMAIN fields |->
                     IF k \in DOMAIN data
                     THEN [fields[k] EXCEPT
                              !.value = set_value(InfoOf(model_cls, k), fields[k].value, data[k])]
                     ELSE fields[k]]
    /\ fpc' = IF ShouldValidate(form_reqdata) THEN "validate" ELSE "built"
    /\ UNCHANGED <<model_cls, form_reqdata, object, fi, data, is_valid, is_empty,
                   model, errors, wobject, nvalid, saved, ferr, orm_made,
                   parseVars, keyVars>>

\* The body of validate for the data d and pydantic's answer errs
Validated(d, errs) ==
    /\ IF errs = <<>>
       THEN /\ model' = ModelOf(model_cls, d)
            /\ is_valid' = TRUE
            /\ UNCHANGED <<errors, fields>>
       ELSE /\ is_valid' = FALSE
            /\ errors' = errors \o RootErrors(errs)
            /\ fields' = [k \in DOMAIN fields |->
                             [fields[k] EXCEPT !.error = ErrorFor(errs, k, fields[k].error)]]
            /\ UNCHANGED model
    /\ nvalid' = nvalid + 1

\* self.validate(data) at the end of __init__
FormValidate ==
    /\ fpc = "validate"
    /\ \E errs \in ValidationOutcomes(model_cls, data) : Validated(data, errs)
    /\ fpc' = "built"
    /\ UNCHANGED <<model_cls, form_reqdata, object, fi, data, is_empty, wobject,
                   saved, ferr, orm_made, parseVars, keyVars>>

\* form.validate() called on the form at most MaxValidations validations in
\* all: the data is built from the fields' values
FormRevalidate ==
    /\ fpc \in {"built", "validated"}
    /\ nvalid < MaxValidations
    /\ \E errs \in ValidationOutcomes(model_cls, FieldsData) : Validated(FieldsData, errs)
    /\ fpc' = "validated"
    /\ UNCHANGED <<model_cls, form_reqdata, object, fi, data, is_empty, wobject,
                   saved, ferr, orm_made, parseVars, keyVars>>

\* form.save()
FormSave ==
    /\ fpc \in {"built", "validated"}
    /\ IF ~CanSave(model, is_valid)
       THEN /\ ferr' = "ValueError"
            /\ fpc' = "raised"
            /\ UNCHANGED <<object, saved, orm_made>>
       ELSE /\ fpc' = "saved"
            /\ ferr' = ferr
            /\ IF wobject # NoneNode
               THEN /\ object' = ObjectUpdate(object, model.v)
                    /\ saved' = ObjectUpdate(object, model.v)
                    /\ UNCHANGED orm_made
               ELSE IF model_cls.orm
               THEN /\ orm_made' = [t |-> "orm", v |-> model.v]
                    /\ saved' = [t |-> "orm", v |-> model.v]
                    /\ UNCHANGED object
               ELSE /\ saved' = DictNode(model.v)
                    /\ UNCHANGED <<object, orm_made>>
    /\ UNCHANGED <<model_cls, form_reqdata, fi, data, fields, is_valid, is_empty,
                   model, errors, wobject, nvalid, parseVars, keyVars>>

FormNext ==
    FormNew \/ FormExtract \/ FormSetValues \/ FormValidate \/ FormRevalidate \/ FormSave

SpecForm == FormInit /\ [][FormNext]_vars

----------------------------------------------------------------------------
(* A form whose fields are set by the caller between the validations *)

\* The values the caller may give to set_value of a field
SetChoices(info) ==
    IF info.kind = "str" THEN {Str("joe"), NoneNode}
    ELSE IF info.kind = "int" THEN {Str("20"), NoneNode}
    ELSE IF info.kind = "list" THEN {ListNode(<<Str("a")>>), NoneNode}
    ELSE {Str(""), NoneNode}

\* form.fields[k].set_value(value), called on a constructed form
FormFieldSet ==
    /\ fpc \in {"built", "validated"}
    /\ \E k \in DOMAIN fields :
          \E value \in SetChoices(InfoOf(model_cls, k)) :
             fields' = [fields EXCEPT
                           ![k].value = set_value(InfoOf(model_cls, k), fields[k].value, value)]
    /\ UNCHANGED <<model_cls, form_reqdata, object, fpc, fi, data, is_valid, is_empty,
                   model, errors, wobject, nvalid, saved, ferr, orm_made,
                   parseVars, keyVars>>

FormSetNext == FormNext \/ FormFieldSet

SpecFormSet == FormInit /\ [][FormSetNext]_vars

----------------------------------------------------------------------------
(* What the claims speak of *)

\* The call has ended, by a return or by an exception
Finished == pc \in {"done", "raised"}

\* The path of the entry at position p of the input
PathOf(p) == parse_key(reqdata[p].key).path

\* The paths of the input's keys, in iteration order
Paths == [p \in 1..Len(reqdata) |-> PathOf(p)]

\* The value of the last insertion the entry at position p causes
LastValue(p) == Normalize(reqdata[p].val)[Len(Normalize(reqdata[p].val))]

\* The tree that holds leaf at the path from position p on and nothing else:
\* a mapping of one name under a Field, a sequence filled with None up to
\* the position under an Index, a sequence of one element under an Append
RECURSIVE Nested(_, _, _)
Nested(path, p, leaf) ==
    IF p > Len(path) THEN leaf
    ELSE IF path[p].k = "Field"
         THEN DictNode(path[p].name :> Nested(path, p + 1, leaf))
    ELSE IF path[p].k = "Index"
         THEN ListNode([q \in 1..(path[p].n + 1) |->
                           IF q = path[p].n + 1 THEN Nested(path, p + 1, leaf)
                                                ELSE NoneNode])
    ELSE ListNode(<<Nested(path, p + 1, leaf)>>)

\* The input has one entry, which causes one insertion
OneInsertion == Len(reqdata) = 1 /\ Len(Normalize(reqdata[1].val)) = 1

----------------------------------------------------------------------------
(* C1 *)

\* C1: parse of a one-entry mapping {key: [v]} whose key is a leading name
\* followed by bracketed segments returns, without raising, the tree that
\* holds v at the key's path and nothing else: under a key of names only,
\* nested mappings with v under the last name; in general every container
\* made under a segment is a mapping when the next segment is a Field and a
\* sequence when it is an Index or an Append.
C1_NestedMappings ==
    (Finished /\ OneInsertion)
    => LET path == PathOf(1) IN
       (path # <<>> /\ path[1].k = "Field")
       => /\ pc = "done"
          /\ err = "none"
          /\ result = Nested(path, 1, LastValue(1))

\* parse({"a[b][c]": [11]}) has returned {"a": {"b": {"c": 11}}}
C1_Witness ==
    /\ pc = "done"
    /\ Len(reqdata) = 1
    /\ reqdata[1].key = <<"a", "[", "b", "]", "[", "c", "]">>
    /\ reqdata[1].val = ListNode(<<Scalar(11)>>)
    /\ result = DictNode(<<"a">> :> DictNode(<<"b">> :> DictNode(<<"c">> :> Scalar(11))))

----------------------------------------------------------------------------
(* C2 *)

\* The names that open some of the paths
TopFields(paths) ==
    {paths[p][1].name :
        p \in {q \in DOMAIN paths : paths[q] # <<>> /\ paths[q][1].k = "Field"}}

\* The entries whose path opens with the name f
EntriesOf(paths, f) ==
    {p \in DOMAIN paths : paths[p] # <<>> /\ paths[p][1] = FieldSeg(f)}

\* Every entry under the name f is f[k]
IndexOnly(paths, f) ==
    \A p \in EntriesOf(paths, f) : Len(paths[p]) = 2 /\ paths[p][2].k = "Index"

\* The entries that write position k of the sequence under f
WritersOf(paths, f, k) == {p \in EntriesOf(paths, f) : paths[p][2].n = k}

SetMax(S) == CHOOSE m \in S : \A x \in S : x <= m

\* C2: when parse returns and the sequence under a name was written only by
\* keys name[k], its length is the highest k plus one, every position written
\* holds the value last written there and every other position holds None.
C2_SparseFill ==
    pc = "done" =>
        LET paths == Paths IN
        \A f \in TopFields(paths) :
            IndexOnly(paths, f) =>
                LET seq == result.v[f]
                    top == SetMax({paths[p][2].n : p \in EntriesOf(paths, f)})
                IN /\ seq.t = "list"
                   /\ Len(seq.v) = top + 1
                   /\ \A k \in 0..top :
                        seq.v[k + 1] =
                            IF WritersOf(paths, f, k) = {} THEN NoneNode
                            ELSE LastValue(SetMax(WritersOf(paths, f, k)))

\* parse({"a[2]": 11, "a[0]": [21, 22]}) has returned {"a": [22, None, 11]}
C2_Witness ==
    /\ pc = "done"
    /\ Len(reqdata) = 2
    /\ reqdata[1].key = <<"a", "[", "2", "]">>
    /\ reqdata[2].key = <<"a", "[", "0", "]">>
    /\ reqdata[2].val = ListNode(<<Scalar(21), Scalar(22)>>)
    /\ result = DictNode(<<"a">> :> ListNode(<<Scalar(22), NoneNode, LastValue(1)>>))

----------------------------------------------------------------------------
(* C3 *)

\* The path is one or more names and then an Append
NamesThenAppend(path) ==
    /\ Len(path) >= 2
    /\ path[Len(path)].k = "Append"
    /\ \A p \in 1..(Len(path) - 1) : path[p].k = "Field"

\* C3: parse of a one-entry mapping whose key ends in [] after names, and
\* whose value is a list of n >= 1 scalars, returns without raising, and the
\* node at those names is a sequence equal to the list: n elements, in order.
C3_AppendFanOut ==
    (/\ Finished
     /\ Len(reqdata) = 1
     /\ reqdata[1].val.t = "list"
     /\ Len(reqdata[1].val.v) >= 1
     /\ NamesThenAppend(PathOf(1)))
    => /\ pc = "done"
       /\ err = "none"
       /\ result = Nested(SubSeq(PathOf(1), 1, Len(PathOf(1)) - 1), 1,
                          ListNode(reqdata[1].val.v))

\* parse({"a[]": [11, 12]}) has returned {"a": [11, 12]}
C3_Witness ==
    /\ pc = "done"
    /\ Len(reqdata) = 1
    /\ reqdata[1].key = <<"a", "[", "]">>
    /\ reqdata[1].val = ListNode(<<Scalar(11), Scalar(12)>>)
    /\ result = DictNode(<<"a">> :> ListNode(<<Scalar(11), Scalar(12)>>))

----------------------------------------------------------------------------
(* C4 *)

\* parse_key has ended, by a return or by an exception
KeyFinished == kpc \in {"done", "raised"}

\* A name of the key grammar: a first character of the name class, then name
\* characters, digits and dots
IsName(s) == s # <<>> /\ NameStart(s[1]) /\ \A p \in 2..Len(s) : NameChar(s[p])

\* A run of the digits 0-9
IsDigits(s) == s # <<>> /\ \A p \in 1..Len(s) : RxDigit(s[p])

\* The first position from p on that holds ch, Len(s) + 1 when there is none
RECURSIVE PosOf(_, _, _)
PosOf(s, p, ch) == IF p > Len(s) \/ s[p] = ch THEN p ELSE PosOf(s, p + 1, ch)

\* The key read by its grammar from position p on, as bracket groups [name],
\* [digits] and []: whether it is made of such groups, and a segment for each
RECURSIVE GroupsFrom(_, _)
GroupsFrom(s, p) ==
    IF p > Len(s) THEN [ok |-> TRUE, path |-> <<>>]
    ELSE IF s[p] # "[" \/ PosOf(s, p + 1, "]") > Len(s) THEN [ok |-> FALSE, path |-> <<>>]
    ELSE LET close == PosOf(s, p + 1, "]")
             inner == SubSeq(s, p + 1, close - 1)
             rest == GroupsFrom(s, close + 1)
             seg == IF inner = <<>> THEN AppendSeg
                    ELSE IF IsDigits(inner) THEN IndexSeg(IntOf(inner))
                    ELSE FieldSeg(inner)
         IN [ok |-> rest.ok /\ (inner = <<>> \/ IsDigits(inner) \/ IsName(inner)),
             path |-> <<seg>> \o rest.path]

\* The key read by its grammar: a name, then bracket groups
ByGrammar(s) ==
    LET open == PosOf(s, 1, "[")
        groups == GroupsFrom(s, open)
    IN [ok |-> IsName(SubSeq(s, 1, open - 1)) /\ groups.ok,
        path |-> <<FieldSeg(SubSeq(s, 1, open - 1))>> \o groups.path]

\* C4: for every key that is a name followed by zero or more groups [name],
\* [digits] or [], parse_key returns one segment per token, left to right:
\* the name and each bracketed name as a Field with its text, each bracketed
\* digit run as the Index of its value, each [] as Append; a dot stays inside
\* its Field.
C4_OneSegmentPerToken ==
    (KeyFinished /\ ByGrammar(key).ok) => (kpc = "done" /\ parsed = ByGrammar(key).path)

----------------------------------------------------------------------------
(* C5 *)

\* The key is empty, all whitespace, or its first character that is not
\* whitespace is "["
BlankOrNoRoot(s) ==
    \/ \A p \in 1..Len(s) : IsSpace(s[p])
    \/ \E p \in 1..Len(s) : s[p] = "[" /\ \A q \in 1..(p - 1) : IsSpace(s[q])

\* C5: parse_key returns the empty path, and raises nothing, for every key
\* that is empty, whitespace only, or whose first character after the
\* leading whitespace is "[", whatever follows.
C5_NoRootEmptyPath ==
    (KeyFinished /\ BlankOrNoRoot(key)) => (kpc = "done" /\ parsed = <<>>)

\* parse_key(" [a]") has returned []
C5_Witness ==
    /\ kpc = "done"
    /\ key = <<" ", "[", "a", "]">>
    /\ parsed = <<>>

----------------------------------------------------------------------------
(* C6 *)

\* C6: the path parse_key returns is empty or opens with a Field; none opens
\* with an Index or an Append.
C6_FirstIsField == kpc = "done" => (parsed = <<>> \/ parsed[1].k = "Field")

----------------------------------------------------------------------------
(* C7 *)

\* C7: parse_key raises for no key: what matches no token is passed over, and
\* every token matched is converted to a segment.
C7_NeverRaises == kpc # "raised"

----------------------------------------------------------------------------
(* C8 *)

\* The entry's key tokenizes to the empty path
EmptyPath(entry) == parse_key(entry.key).path = <<>>

HasPath(entry) == ~EmptyPath(entry)

\* C8: an entry whose key tokenizes to the empty path causes no insertion and
\* no error, whatever its value: parse ends as it does on the input without
\* such entries, with the same tree when it returns.
C8_EmptyPathSkipped ==
    (Finished /\ \E p \in 1..Len(reqdata) : EmptyPath(reqdata[p]))
    => LET kept == parse(SelectSeq(reqdata, HasPath)) IN
       /\ err = kept.err
       /\ pc = "done" => result = kept.node

\* parse({"[x]": [11, 12], "a": 21}) has returned {"a": 21}
C8_Witness ==
    /\ pc = "done"
    /\ Len(reqdata) = 2
    /\ reqdata[1].key = <<"[", "x", "]">>
    /\ reqdata[1].val = ListNode(<<Scalar(11), Scalar(12)>>)
    /\ reqdata[2].key = <<"a">>
    /\ result = DictNode(<<"a">> :> Scalar(21))

----------------------------------------------------------------------------
(* C9 *)

\* No key of the input has an Append segment
NoAppend(paths) ==
    \A p \in DOMAIN paths : \A q \in 1..Len(paths[p]) : paths[p][q].k # "Append"

IsPrefix(path, other) ==
    Len(path) <= Len(other) /\ SubSeq(other, 1, Len(path)) = path

\* No key's path equals or is a prefix of another key's path
NoPrefix(paths) ==
    \A p, q \in DOMAIN paths : p # q => ~IsPrefix(paths[p], paths[q])

\* The two paths imply the same shape at every node they share: after a
\* common prefix both go on with a Field or neither does
SameShapes(path, other) ==
    \A m \in 0..(Len(path) - 1) :
        (m < Len(other) /\ SubSeq(path, 1, m) = SubSeq(other, 1, m))
        => ((path[m + 1].k = "Field") <=> (other[m + 1].k = "Field"))

NoShapeConflict(paths) ==
    \A p, q \in DOMAIN paths : SameShapes(paths[p], paths[q])

\* The input with its entries in the order perm
Reordered(perm) == [p \in 1..Len(reqdata) |-> reqdata[perm[p]]]

\* C9: for an input whose keys have only Field and Index segments, none a
\* prefix of another and no two in conflict on a node's shape, parse ends the
\* same way, and returns the same tree, for every iteration order of the keys.
C9_OrderInsensitive ==
    (Finished /\ LET paths == Paths
                 IN NoAppend(paths) /\ NoPrefix(paths) /\ NoShapeConflict(paths))
    => \A perm \in Permutations(1..Len(reqdata)) :
          LET other == parse(Reordered(perm)) IN
          /\ other.err = err
          /\ pc = "done" => other.node = result

\* parse({"a[1][c]": 11, "a[1][b]": 21}) has returned
\* {"a": [None, {"c": 11, "b": 21}]}
C9_Witness ==
    /\ pc = "done"
    /\ Len(reqdata) = 2
    /\ reqdata[1].key = <<"a", "[", "1", "]", "[", "c", "]">>
    /\ reqdata[1].val = Scalar(11)
    /\ reqdata[2].key = <<"a", "[", "1", "]", "[", "b", "]">>
    /\ reqdata[2].val = Scalar(21)
    /\ result = DictNode(<<"a">> :> ListNode(<<NoneNode,
                    DictNode(<<"b">> :> Scalar(21) @@ <<"c">> :> Scalar(11))>>))

----------------------------------------------------------------------------
(* C10 *)

\* Every key opens with a name, and no two keys with the same one
DistinctTopFields(paths) ==
    /\ \A p \in DOMAIN paths : paths[p] # <<>> /\ paths[p][1].k = "Field"
    /\ \A p, q \in DOMAIN paths : p # q => paths[p][1] # paths[q][1]

\* The tree parse returns for the entry at position p alone
Alone(p) == parse(<<reqdata[p]>>)

\* An insertion at a path that opens with the name f leaves every other
\* top-level name, and the subtree under it, as it was
C10_Frame ==
    (pc = "insert" /\ parsed_key # <<>> /\ parsed_key[1].k = "Field")
    => \A g \in (DOMAIN result.v) \ {parsed_key[1].name} :
          g \in DOMAIN result'.v /\ result'.v[g] = result.v[g]

\* For keys with pairwise distinct top-level names the tree returned is the
\* union of the trees returned for each entry alone
C10_Union ==
    (Finished /\ DistinctTopFields(Paths))
    => /\ pc = "done"
       /\ DOMAIN result.v = TopFields(Paths)
       /\ \A p \in 1..Len(reqdata) :
             LET alone == Alone(p) IN
             /\ alone.err = "none"
             /\ result.v[PathOf(p)[1].name] = alone.node.v[PathOf(p)[1].name]

\* C10: inserting at a path whose first Field is f leaves the subtree under
\* every other top-level field unchanged; hence for an input whose keys have
\* pairwise distinct top-level fields the result is the union of the trees
\* obtained by parsing each entry alone.
C10_Independent == [][C10_Frame]_vars /\ []C10_Union

\* parse({"a[b]": 11, "g[0]": 21}) has returned {"a": {"b": 11}, "g": [21]}
C10_Witness ==
    /\ pc = "done"
    /\ Len(reqdata) = 2
    /\ reqdata[1].key = <<"a", "[", "b", "]">>
    /\ reqdata[1].val = Scalar(11)
    /\ reqdata[2].key = <<"g", "[", "0", "]">>
    /\ reqdata[2].val = Scalar(21)
    /\ result = DictNode(<<"a">> :> DictNode(<<"b">> :> Scalar(11))
                         @@ <<"g">> :> ListNode(<<Scalar(21)>>))

----------------------------------------------------------------------------
(* C13 *)

\* C13: parse never changes its input: for every input, {"a": [], "a[]": x}
\* included, when parse has returned the input mapping and each of its value
\* lists are equal to what they were before the call.
C13_InputUntouched == pc = "done" => reqstate = reqdata

\* parse({"a": [], "a[]": 21}) has returned {"a": [21]}, and the list under
\* "a" of the input, which is the list under "a" of the result, holds 21
C13_Mutated ==
    /\ pc = "done"
    /\ Len(reqdata) = 2
    /\ reqdata[1] = [key |-> <<"a">>, val |-> EmptyList]
    /\ reqdata[2] = [key |-> <<"a", "[", "]">>, val |-> Scalar(21)]
    /\ result = DictNode(<<"a">> :> ListNode(<<Scalar(21)>>))
    /\ held[1] = <<FieldSeg(<<"a">>)>>
    /\ reqstate[1].val = ListNode(<<Scalar(21)>>)

----------------------------------------------------------------------------
(* C11 *)

\* The path ends in a Field
EndsInField(path) == path # <<>> /\ path[Len(path)].k = "Field"

\* The value of the entry at position p is a list of one or more scalars
ListOfScalars(p) == reqdata[p].val.t = "list" /\ reqdata[p].val.v # <<>>

\* C11: for a key whose path ends in a Field and whose value is a list of
\* n >= 1 scalars, parse stores at that field the last scalar of the list:
\* when the insertions of the entry are over, the node at the key's path is
\* the last scalar, and for a one-entry input of such a key made of names
\* parse returns the tree that holds the last scalar and nothing else.
C11_LastWriteWins ==
    /\ (pc = "entry" /\ i >= 2 /\ EndsInField(PathOf(i - 1)) /\ ListOfScalars(i - 1))
       => NodeAt(result, WriteLoc(PathOf(i - 1), 1, result), 1) = LastValue(i - 1)
    /\ (Finished /\ Len(reqdata) = 1 /\ ListOfScalars(1))
       => LET path == PathOf(1) IN
          (EndsInField(path) /\ \A p \in DOMAIN path : path[p].k = "Field")
          => pc = "done" /\ result = Nested(path, 1, LastValue(1))

\* parse({"a[b]": [11, 12]}) has returned {"a": {"b": 12}}
C11_Witness ==
    /\ pc = "done"
    /\ Len(reqdata) = 1
    /\ reqdata[1].key = <<"a", "[", "b", "]">>
    /\ reqdata[1].val = ListNode(<<Scalar(11), Scalar(12)>>)
    /\ result = DictNode(<<"a">> :> DictNode(<<"b">> :> Scalar(12)))

----------------------------------------------------------------------------
(* C12 *)

\* The path is one or more names and then an Index
NamesThenIndex(path) ==
    /\ Len(path) >= 2
    /\ path[Len(path)].k = "Index"
    /\ \A p \in 1..(Len(path) - 1) : path[p].k = "Field"

\* The sequence the last segment of the path writes to
TargetSequence(path) == NodeAt(result, SubSeq(path, 1, Len(path) - 1), 1)

\* C12, as claimed: for a key name[k] whose value is a list of three scalars
\* the three insertions produce three distinct elements of the target
\* sequence, as for a key that ends in []: each of the three scalars is an
\* element of the sequence.
C12_IndexFanOut ==
    (Finished /\ Len(reqdata) = 1 /\ ListOfScalars(1) /\ Len(reqdata[1].val.v) = 3)
    => LET path == PathOf(1) IN
       NamesThenIndex(path)
       => /\ pc = "done"
          /\ TargetSequence(path).t = "list"
          /\ \A q \in 1..3 :
                \E pos \in DOMAIN TargetSequence(path).v :
                    TargetSequence(path).v[pos] = reqdata[1].val.v[q]

\* C12, amended: for a key name[k] whose value is a list of n >= 1 scalars
\* (three included) the n insertions all write position k of the target
\* sequence: parse returns the sequence of length k + 1 that holds the last
\* scalar of the list at k and None below it, so one element and not n.
C12_IndexOverwrites ==
    (Finished /\ Len(reqdata) = 1 /\ ListOfScalars(1))
    => LET path == PathOf(1) IN
       NamesThenIndex(path)
       => /\ pc = "done"
          /\ result = Nested(path, 1, LastValue(1))
          /\ Len(TargetSequence(path).v) = path[Len(path)].n + 1
          /\ \A pos \in DOMAIN TargetSequence(path).v :
                TargetSequence(path).v[pos] =
                    IF pos = path[Len(path)].n + 1 THEN LastValue(1) ELSE NoneNode

\* parse({"a[2]": [11, 12, 13]}) has returned {"a": [None, None, 13]}
C12_Witness ==
    /\ pc = "done"
    /\ Len(reqdata) = 1
    /\ reqdata[1].key = <<"a", "[", "2", "]">>
    /\ reqdata[1].val = ListNode(<<Scalar(11), Scalar(12), Scalar(13)>>)
    /\ result = DictNode(<<"a">> :> ListNode(<<NoneNode, NoneNode, Scalar(13)>>))

----------------------------------------------------------------------------
(* C20 *)

\* The values parse is to insert for a value of the input: the scalars of a
\* non-empty list in list order, the empty list itself, or the one value
Insertions(val) ==
    IF val.t = "list"
    THEN IF Len(val.v) >= 1 THEN val.v ELSE <<EmptyList>>
    ELSE <<val>>

\* C20: parse normalizes each entry's value before inserting: a non-empty
\* list of n scalars causes n insertions in list order, a value that is not a
\* list one insertion of that value, an empty list one insertion of the empty
\* list itself.  The values to insert are these, and under a key that ends
\* in [] after names the sequence returned holds them, one element each.
C20_Normalised ==
    /\ pc = "insert"
       => values = Insertions(reqdata[i].val) /\ j \in 1..Len(values)
    /\ (Finished /\ Len(reqdata) = 1)
       => LET path == PathOf(1) IN
          NamesThenAppend(path)
          => /\ pc = "done"
             /\ result = Nested(SubSeq(path, 1, Len(path) - 1), 1,
                                ListNode(Insertions(reqdata[1].val)))

\* parse({"a[]": []}) has returned {"a": [[]]}
C20_Witness ==
    /\ pc = "done"
    /\ Len(reqdata) = 1
    /\ reqdata[1].key = <<"a", "[", "]">>
    /\ reqdata[1].val = EmptyList
    /\ j = 1
    /\ result = DictNode(<<"a">> :> ListNode(<<EmptyList>>))

----------------------------------------------------------------------------
(* C19 *)

\* The shape of the container a segment is applied to
ShapeFor(seg) == IF seg.k = "Field" THEN "dict" ELSE "list"

\* What one insertion of val at the path pk does at its non-final Field
\* segments from position p on, where old is the mapping the walk has
\* reached before the insertion and new the same place after it, for every
\* name that old already holds:
\*   - a value that is not a container is replaced by a fresh container of
\*     the shape the next segment implies, and the insertion goes on in it;
\*   - a container of the other shape: replaced in the same way when
\*     replaces is TRUE; kept, and the insertion raises, when it is FALSE;
\*   - a container of the right shape is kept and the walk goes on in it.
RECURSIVE FieldSteps(_, _, _, _, _, _, _)
FieldSteps(pk, p, old, new, raised, val, replaces) ==
    IF p >= Len(pk) THEN TRUE
    ELSE IF pk[p].k # "Field" \/ old.t # "dict" THEN TRUE
    ELSE IF pk[p].name \notin DOMAIN old.v THEN TRUE
    ELSE LET was == old.v[pk[p].name]
             now == NodeAt(new, <<pk[p]>>, 1)
             fresh == ~raised /\ now = Nested(pk, p + 1, val)
         IN IF was.t \notin {"dict", "list"} THEN fresh
            ELSE IF was.t # ShapeFor(pk[p + 1])
                 THEN IF replaces THEN fresh ELSE raised /\ now = was
            ELSE FieldSteps(pk, p + 1, was, now, raised, val, replaces)

\* C19, as claimed: when insert processes a non-final Field segment and the
\* mapping holds under that name a container of the other shape than the
\* next segment implies, the entry is replaced by a fresh empty container of
\* the right shape and the insertion continues inside it without error.
C19_ConflictReplaced ==
    [][pc = "insert"
       => FieldSteps(parsed_key, 1, result, result', pc' = "raised", values[j], TRUE)]_vars

\* C19, amended: at a non-final Field segment only a value that is not a
\* container (a scalar or None) is replaced by a fresh container of the shape
\* the next segment implies; a container is kept whatever its shape, and when
\* it has the other shape the insertion raises and replaces nothing.
C19_ConflictRaises ==
    [][pc = "insert"
       => FieldSteps(parsed_key, 1, result, result', pc' = "raised", values[j], FALSE)]_vars

\* parse({"a[b]": 11, "a[0]": 21}) has raised AssertionError at the second
\* key, with {"a": {"b": 11}} as the tree at that time
C19_Witness ==
    /\ pc = "raised"
    /\ err = "AssertionError"
    /\ Len(reqdata) = 2
    /\ reqdata[1] = [key |-> <<"a", "[", "b", "]">>, val |-> Scalar(11)]
    /\ reqdata[2] = [key |-> <<"a", "[", "0", "]">>, val |-> Scalar(21)]
    /\ i = 2
    /\ result = DictNode(<<"a">> :> DictNode(<<"b">> :> Scalar(11)))

----------------------------------------------------------------------------
(* C14 *)

\* The constructor has returned, and validate may have been called since
Built == fpc \in {"built", "validated"}

\* The form is valid and holds a validated model
ValidWithModel == is_valid /\ model # NoneNode

\* A call of save on a form that is not valid raises ValueError and leaves
\* the object, the ORM instance and the result as they were; on a valid form
\* with a model it returns a result
C14_SaveStep ==
    (Built /\ fpc' \in {"saved", "raised"})
    => IF ValidWithModel
       THEN fpc' = "saved" /\ ferr' = "none" /\ saved' # NoneNode
       ELSE /\ fpc' = "raised"
            /\ ferr' = "ValueError"
            /\ object' = object
            /\ orm_made' = NoneNode
            /\ saved' = NoneNode

\* Once save has ended: it has returned only on a valid form with a model,
\* and when it has raised nothing was built or returned
C14_SaveEnded ==
    /\ fpc = "saved" => ValidWithModel /\ saved # NoneNode /\ ferr = "none"
    /\ fpc = "raised" => /\ ~ValidWithModel
                         /\ ferr = "ValueError"
                         /\ saved = NoneNode
                         /\ orm_made = NoneNode

\* C14: Form.save raises ValueError, and neither updates the wrapped object
\* nor builds an ORM instance, whenever the form is not valid (an empty form,
\* a form built from an object without request data, a form whose validation
\* failed); it returns a result only when is_valid is true and a validated
\* model exists.
C14_SaveGuarded == [][C14_SaveStep]_vars /\ []C14_SaveEnded

\* A form built from request data and an object was valid, a later validate
\* has failed, and save has raised: the model of the first validation is
\* still there and the object was not updated
C14_Witness ==
    /\ fpc = "raised"
    /\ ferr = "ValueError"
    /\ model_cls = UserModel
    /\ form_reqdata = DictNode(OneKey("name", Str("a")))
    /\ object = AttrObject(OneKey("name", Str("orig")))
    /\ wobject # NoneNode
    /\ model # NoneNode
    /\ ~is_valid
    /\ nvalid = 2

----------------------------------------------------------------------------
(* C15 *)

----------------------------------------------------------------------------
(* C16 *)

\* The first of the values a, b, c, d that is not None
FirstNotNone(a, b, c, d) ==
    IF a # NoneNode THEN a ELSE IF b # NoneNode THEN b ELSE IF c # NoneNode THEN c ELSE d

\* The value the request data holds for the key k, None without the key
RequestValue(k) == SourceGet(DataWrapper(form_reqdata), k)

\* The constructor has returned, for request data and an object
BuiltWithBoth == fpc = "built" /\ form_reqdata # NoneNode /\ object # NoneNode

\* The fields of the form's model class that are not boolean
PlainFields == {info \in InfosOf(model_cls) : info.kind # "bool"}

----------------------------------------------------------------------------
(* C17 *)

\* The boolean fields of the form's model class
BoolFields == {info \in InfosOf(model_cls) : info.kind = "bool"}

\* The value submitted for a field whose name is in the request data: the
\* one under its alias when there is one, else the one under its name
SubmittedFor(info) ==
    LET by_alias == IF info.alias = "" THEN NoneNode ELSE RequestValue(info.alias)
    IN IF by_alias # NoneNode THEN by_alias ELSE RequestValue(info.name)

----------------------------------------------------------------------------
(* C18 *)

\* The list fields of the form's model class
MultipleFields == {info \in InfosOf(model_cls) : info.kind = "list"}

\* C18: for a field whose annotation is a list the value bound from request
\* data is always the list of all the values submitted under the field
\* name: one scalar "a" gives ["a"], two submissions to a multi-valued
\* source give both values in order.
C18_MultipleIsList ==
    (fpc = "built" /\ form_reqdata # NoneNode)
    => \A info \in MultipleFields :
          info.name \in DOMAIN form_reqdata.v
          => fields[info.name].value = SourceGetAll(DataWrapper(form_reqdata), info.name)

\* UserModel.as_form({"name": "a", "tags": "a"}): the value of tags is "a"
C18_ScalarKept ==
    /\ fpc = "built"
    /\ model_cls = UserModel
    /\ form_reqdata = DictNode(("name" :> Str("a")) @@ ("tags" :> Str("a")))
    /\ object = NoneNode
    /\ fields["tags"].value = Str("a")

----------------------------------------------------------------------------
(* C21 *)

\* The path has an Append segment that is not its last segment
HasInnerAppend(pk) == \E p \in 1..(Len(pk) - 1) : pk[p].k = "Append"

\* The position of the first Append segment of such a path
FirstAppend(pk) ==
    CHOOSE p \in 1..Len(pk) :
        pk[p].k = "Append" /\ \A q \in 1..(p - 1) : pk[q].k # "Append"

\* The place of the sequence that Append segment lengthens: the names and
\* positions before it
SequencePlace(pk) == SubSeq(pk, 1, FirstAppend(pk) - 1)

\* The elements of a node, none when it is not a sequence
ElementsOf(node) == IF node.t = "list" THEN node.v ELSE <<>>

\* The tree without the last element of the sequence at the place loc
RECURSIVE DropLast(_, _, _)
DropLast(node, loc, p) ==
    IF p > Len(loc) THEN ListNode(SubSeq(node.v, 1, Len(node.v) - 1))
    ELSE IF loc[p].k = "Field"
         THEN DictNode([node.v EXCEPT ![loc[p].name] = DropLast(@, loc, p + 1)])
    ELSE ListNode([node.v EXCEPT ![loc[p].n + 1] = DropLast(@, loc, p + 1)])

\* One insertion, that does not raise, at a path with an inner Append: the
\* sequence has one element more, its earlier elements are what they were,
\* the new element is a fresh container that holds the value at the rest of
\* the path and nothing else, and when the sequence was there before, the
\* tree without the new element is the tree before the insertion
C21_AppendStep ==
    (pc = "insert" /\ HasInnerAppend(parsed_key) /\ pc' # "raised")
    => LET place == SequencePlace(parsed_key)
           before == NodeAt(result, place, 1)
           after == NodeAt(result', place, 1)
           was == ElementsOf(before)
       IN /\ after.t = "list"
          /\ Len(after.v) = Len(was) + 1
          /\ SubSeq(after.v, 1, Len(was)) = was
          /\ after.v[Len(was) + 1] =
                 Nested(parsed_key, FirstAppend(parsed_key) + 1, values[j])
          /\ before.t = "list" => DropLast(result', place, 1) = result

\* The number of insertions the entries of the input cause from entry p on
RECURSIVE InsertionsFrom(_)
InsertionsFrom(p) ==
    IF p > Len(reqdata) THEN 0
    ELSE Len(Normalize(reqdata[p].val)) + InsertionsFrom(p + 1)

\* Every key of the input has an inner Append at the same sequence
AllAppendInto(place) ==
    \A p \in 1..Len(reqdata) :
        HasInnerAppend(PathOf(p)) /\ SequencePlace(PathOf(p)) = place

\* When every key of the input appends a container to the same sequence,
\* the sequence returned has one element for each insertion
C21_OneElementEach ==
    (pc = "done" /\ reqdata # <<>> /\ AllAppendInto(SequencePlace(PathOf(1))))
    => LET seq == NodeAt(result, SequencePlace(PathOf(1)), 1)
       IN seq.t = "list" /\ Len(seq.v) = InsertionsFrom(1)

\* C21: every insertion whose path has an Append segment in a non-final
\* position lengthens that sequence by exactly one fresh container and
\* writes only inside it, leaving all earlier elements unchanged: two keys
\* such as items[][a] and items[][b], or one such key with n values, never
\* write into the same element, so k such insertions yield k elements.
C21_AppendFresh == [][C21_AppendStep]_vars /\ []C21_OneElementEach

\* parse({"a[][b]": [11, 12], "a[][c]": 21}) has returned
\* {"a": [{"b": 11}, {"b": 12}, {"c": 21}]}
C21_Witness ==
    /\ pc = "done"
    /\ Len(reqdata) = 2
    /\ reqdata[1] = [key |-> <<"a", "[", "]", "[", "b", "]">>, val |-> ScalarList(1, 2)]
    /\ reqdata[2] = [key |-> <<"a", "[", "]", "[", "c", "]">>, val |-> Scalar(21)]
    /\ result = DictNode(<<"a">> :> ListNode(<< DictNode(<<"b">> :> Scalar(11)),
                                               DictNode(<<"b">> :> Scalar(12)),
                                               DictNode(<<"c">> :> Scalar(21)) >>))

----------------------------------------------------------------------------
(* C22 *)

\* An empty container of the shape the segment is applied to
FreshFor(seg) == [t |-> ShapeFor(seg), v |-> <<>>]

\* The node the walk goes on in after the segment pk[p], which is not the
\* last, has been applied to the container ref of its shape: what is there
\* under the name when it is a container, what is there at the position
\* when it is not None, and a fresh container otherwise and under an Append
NextNode(pk, p, ref) ==
    IF pk[p].k = "Field"
    THEN IF pk[p].name \in DOMAIN ref.v /\ ref.v[pk[p].name].t \in {"dict", "list"}
         THEN ref.v[pk[p].name] ELSE FreshFor(pk[p + 1])
    ELSE IF pk[p].k = "Index"
    THEN IF pk[p].n < Len(ref.v) /\ ref.v[pk[p].n + 1].t # "none"
         THEN ref.v[pk[p].n + 1] ELSE FreshFor(pk[p + 1])
    ELSE FreshFor(pk[p + 1])

\* The walk of the path pk from position p on, begun at the node ref, reaches
\* a node whose shape contradicts the segment applied to it: a Field at a
\* sequence or a scalar, an Index or an Append at a mapping or a scalar
RECURSIVE ShapeConflict(_, _, _)
ShapeConflict(pk, p, ref) ==
    IF p > Len(pk) THEN FALSE
    ELSE IF ref.t # ShapeFor(pk[p]) THEN TRUE
    ELSE IF p = Len(pk) THEN FALSE
    ELSE ShapeConflict(pk, p + 1, NextNode(pk, p, ref))

\* The tree holds the value val somewhere
RECURSIVE HoldsValue(_, _)
HoldsValue(node, val) ==
    IF node = val THEN TRUE
    ELSE IF node.t = "dict" THEN \E k \in DOMAIN node.v : HoldsValue(node.v[k], val)
    ELSE IF node.t = "list" THEN \E q \in DOMAIN node.v : HoldsValue(node.v[q], val)
    ELSE FALSE

\* An insertion that meets such a node raises AssertionError or TypeError
\* and the tree does not hold its value; a call that has raised returns
\* nothing afterwards
C22_ConflictStep ==
    /\ (pc = "insert" /\ ShapeConflict(parsed_key, 1, result))
       => /\ pc' = "raised"
          /\ err' \in {"AssertionError", "TypeError"}
          /\ values[j].t = "scalar" => ~HoldsValue(result', values[j])
    /\ pc = "raised" => pc' = "raised"

\* C22: whenever an insertion reaches a node whose shape contradicts the
\* current segment (a Field segment at a sequence or a scalar, an Index or
\* Append segment at a mapping or a scalar), insert raises instead of writing
\* the value and parse returns no tree: no such conflict ends with a returned
\* tree that holds the value at a wrong place.
C22_ConflictRaises == [][C22_ConflictStep]_vars

\* parse({"a[]": [11, 12], "a[0][b]": 21}) has raised AssertionError at the
\* second key: a[0] is the scalar 11, and 21 is nowhere in the tree
C22_Witness ==
    /\ pc = "raised"
    /\ err = "AssertionError"
    /\ Len(reqdata) = 2
    /\ reqdata[1] = [key |-> <<"a", "[", "]">>, val |-> ScalarList(1, 2)]
    /\ reqdata[2] = [key |-> <<"a", "[", "0", "]", "[", "b", "]">>, val |-> Scalar(21)]
    /\ i = 2
    /\ result = DictNode(<<"a">> :> ListNode(<<Scalar(11), Scalar(12)>>))

----------------------------------------------------------------------------
(* C23 *)

\* C23: after any sequence of Form construction, FormField.set_value and
\* Form.validate calls, is_valid is true only if the validation state is
\* consistent: the model is not None, the form's errors list is empty and no
\* field carries an error left over from an earlier failed validation.
C23_ValidIsConsistent ==
    is_valid
    => /\ model # NoneNode
       /\ errors = <<>>
       /\ \A k \in DOMAIN fields : fields[k].error = NoneNode

\* form = UserModel.as_form({"age": "20"}); form.fields["name"].set_value("joe");
\* form.validate(): the form is valid with the model of joe, and the field
\* name still carries the error of the missing name
C23_StaleError ==
    /\ fpc = "validated"
    /\ model_cls = UserModel
    /\ form_reqdata = DictNode(OneKey("age", Str("20")))
    /\ object = NoneNode
    /\ nvalid = 2
    /\ is_valid
    /\ errors = <<>>
    /\ model = [t |-> "model",
                v |-> ("name" :> Str("joe")) @@ ("age" :> Str("20")) @@ ("tags" :> ListNode(<<>>))]
    /\ fields["name"] = [value |-> Str("joe"), error |-> ErrorDetails("missing", <<"name">>)]
    /\ fields["age"] = [value |-> Str("20"), error |-> NoneNode]
    /\ fields["tags"] = [value |-> ListNode(<<>>), error |-> NoneNode]

\* What of C23 holds: a valid form has a model
C23_ValidHasModel == is_valid => model # NoneNode

====
